---- MODULE Spec2Model ----
(***************************************************************************)
(* Number Match solver (src/solver.js): board helpers, move enumeration,   *)
(* move application with row compaction, board extension, the depth-first  *)
(* search, the display grouping and the multi-phase orchestrator.          *)
(*                                                                         *)
(* Boards are sequences of cell values: 1..9 an active digit, 0 a cleared  *)
(* cell, -1 the "no cell" sentinel.  The source indexes cells from 0; a    *)
(* TLA+ sequence is indexed from 1, so At(b, i) reads b[i + 1] and moves   *)
(* <<i, j>> keep the source's 0-based positions.                           *)
(***************************************************************************)
EXTENDS Integers, Sequences, FiniteSets, TLC

ROW_SIZE == 9

\* ---- bounds of the checked instances ----
\* longest line of cell characters drawn for a board text
MaxCols == 3
\* most lines of a board text
MaxRows == 2
\* number of '.' characters appended to a line to make it wider than a row
WideFill == 7

\* largest result-list capacity (topK) given to solve
MaxTopK == 2

\* largest phase count (maxExtensions) given to solveMultiPhase
MaxPhases == 3

\* largest number of progress reports the clock lets one run emit
MaxReports == 1

\* width of the one-row boards on which many phases are run
MaxDeepCols == 5

\* largest phase count given to solveMultiPhase on those boards
MaxDeepPhases == 4

VARIABLES
    pc,             \* where the program is: "play", "call", "dfs", "done", "grouped", ...
    text,           \* the board text given to parseBoard
    start,          \* the board parseBoard returned
    board,          \* the current board
    op,             \* the last board operation performed and its arguments
    played,         \* the moves applied to the parsed board so far, in order
    topK,           \* solve's result-list capacity
    stack,          \* solve.dfs activations: [board, moves, moveIdx], innermost last
    curSeq,         \* solve.dfs: the move sequence of the current path
    visited,        \* solve: keys of the boards already expanded
    topResults,     \* solve: the ranked terminals kept, [seq, board]
    statesExplored, \* solve: boards entered for the first time
    statesSkipped,  \* solve: dfs calls cut by the visited set
    solved,         \* solve: a zero-remaining terminal was recorded
    progressCallback, \* solve: whether a progress callback was supplied
    moveProgress,   \* solve: [total, current] of the move loop of each depth
    reports,        \* the messages the progress callback has received
    groupOf,        \* the move sequence last given to groupMovesForDisplay
    groups,         \* the steps groupMovesForDisplay returned
    maxExtensions,  \* solveMultiPhase: the phase limit
    phaseNum,       \* solveMultiPhase: the phase being run
    currentStates,  \* solveMultiPhase: the candidates the next phase extends
    candIdx,        \* solveExtendedPhase: idx, the index of the candidate being tried
    allResults,     \* solveExtendedPhase: the results combined so far
    foundExactSolution, \* solveExtendedPhase: a result with 0 remaining was combined
    extStatesExplored,  \* solveExtendedPhase: totalStatesExplored of the phase
    allPhases,      \* solveMultiPhase: the phase records pushed so far
    bestSolution,   \* solveMultiPhase: <<>> for null, else <<the best solution>>
    totalStatesExplored \* solveMultiPhase: states explored over all solve calls

boardVars == <<text, start, board, op, played>>
solveVars == <<topK, stack, curSeq, visited, topResults, statesExplored, statesSkipped, solved,
               progressCallback, moveProgress, reports>>
groupVars == <<groupOf, groups>>
multiVars == <<maxExtensions, phaseNum, currentStates, candIdx, allResults, foundExactSolution,
               extStatesExplored, allPhases, bestSolution, totalStatesExplored>>
vars == <<pc, boardVars, solveVars, groupVars, multiVars>>

\* ---- generic sequence helpers ----
At(b, i) == b[i + 1]

Range(s) == {s[k] : k \in 1..Len(s)}

Min2(a, b) == IF a < b THEN a ELSE b

\* Array.prototype.slice(from, to) with 0-based, end-exclusive bounds,
\* clipped to the array as JavaScript clips them.
Slice(s, from, to) ==
    LET hi == Min2(to, Len(s))
    IN  IF from >= hi THEN <<>> ELSE [k \in 1..(hi - from) |-> s[from + k]]

SeqsUpTo(S, lo, hi) == UNION {[1..n -> S] : n \in lo..hi}

\* ---- parseBoard (src/solver.js:9-22) ----
\* A text is a sequence of one-character strings.
DigitChars == <<"1", "2", "3", "4", "5", "6", "7", "8", "9">>

IsDigitChar(ch) == \E d \in 1..9 : DigitChars[d] = ch

DigitValue(ch) == CHOOSE d \in 1..9 : DigitChars[d] = ch

IsSpace(ch) == ch \in {" ", "\n"}

RECURSIVE TrimStart(_)
TrimStart(s) ==
    IF s # <<>> /\ IsSpace(Head(s)) THEN TrimStart(Tail(s)) ELSE s

RECURSIVE TrimEnd(_)
TrimEnd(s) ==
    IF s # <<>> /\ IsSpace(s[Len(s)]) THEN TrimEnd(SubSeq(s, 1, Len(s) - 1)) ELSE s

Trim(s) == TrimEnd(TrimStart(s))

\* str.split("\n"): always at least one (possibly empty) piece
RECURSIVE SplitLines(_, _)
SplitLines(s, cur) ==
    IF s = <<>> THEN <<cur>>
    ELSE IF Head(s) = "\n" THEN <<cur>> \o SplitLines(Tail(s), <<>>)
    ELSE SplitLines(Tail(s), Append(cur, Head(s)))

\* the cells pushed for the characters of one line: '.' -> 0, '1'..'9' -> the
\* digit, any other character pushes nothing
RECURSIVE RowCells(_)
RowCells(line) ==
    IF line = <<>> THEN <<>>
    ELSE LET ch == Head(line)
             rest == RowCells(Tail(line))
         IN  IF ch = "." THEN <<0>> \o rest
             ELSE IF IsDigitChar(ch) THEN <<DigitValue(ch)>> \o rest
             ELSE rest

\* while (row.length < ROW_SIZE) row.push(-1)
PadRow(row) ==
    IF Len(row) < ROW_SIZE
    THEN row \o [k \in 1..(ROW_SIZE - Len(row)) |-> -1]
    ELSE row

RECURSIVE ParseLines(_)
ParseLines(lines) ==
    IF lines = <<>> THEN <<>>
    ELSE LET l == Trim(Head(lines))
         IN  IF l = <<>> THEN ParseLines(Tail(lines))
             ELSE PadRow(RowCells(l)) \o ParseLines(Tail(lines))

parseBoard(str) == ParseLines(SplitLines(Trim(str), <<>>))

\* ---- board helpers ----
getRow(idx) == idx \div ROW_SIZE
getCol(idx) == idx % ROW_SIZE
getIndex(r, c) == r * ROW_SIZE + c

\* number of rows a loop "for (r = 0; r < length / ROW_SIZE; r++)" visits
RowsOf(b) == (Len(b) + ROW_SIZE - 1) \div ROW_SIZE

isValidPair(b, i, j) ==
    LET x == At(b, i)
        y == At(b, j)
    IN  IF x <= 0 \/ y <= 0 THEN FALSE ELSE x = y \/ x + y = 10

remainingCount(b) == Cardinality({k \in 1..Len(b) : b[k] > 0})

\* ---- findAllMoves (src/solver.js:33-70) ----
\* findNextInDir: the first active cell from (row+dr, col+dc) on, stepping by
\* (dr, dc) while inside the board; -1 when there is none.  A position past
\* the end of the array reads as undefined, which is not > 0.
\* faulty variant: the scan steps over the first active cell it meets and
\* returns the one behind it
findNextInDirBehind(b, row, col, dr, dc) ==
    LET RECURSIVE Scan(_, _, _)
        Scan(r0, c0, skip) ==
            LET r == r0 + dr
                c == c0 + dc
                idx == r * ROW_SIZE + c
            IN  IF ~(r >= 0 /\ r * ROW_SIZE < Len(b) /\ c >= 0 /\ c < ROW_SIZE) THEN -1
                ELSE IF idx < Len(b) /\ At(b, idx) > 0
                     THEN (IF skip = 0 THEN idx ELSE Scan(r, c, 0))
                ELSE Scan(r, c, skip)
    IN  Scan(row, col, 1)

RECURSIVE findNextInDir(_, _, _, _, _)
findNextInDir(b, row, col, dr, dc) ==
    LET r == row + dr
        c == col + dc
        idx == r * ROW_SIZE + c
    IN  IF ~(r >= 0 /\ r * ROW_SIZE < Len(b) /\ c >= 0 /\ c < ROW_SIZE) THEN -1
        ELSE IF idx < Len(b) /\ At(b, idx) > 0 THEN idx
        ELSE findNextInDir(b, r, c, dr, dc)

\* the nearest active cell after i in the flattened board, or -1
RECURSIVE NextLinear(_, _)
NextLinear(b, k) ==
    IF k >= Len(b) THEN -1
    ELSE IF At(b, k) > 0 THEN k
    ELSE NextLinear(b, k + 1)

\* the moves pushed for cell i, in the order the loop body pushes them
MovesFrom(b, i) ==
    LET vi == At(b, i)
        k == NextLinear(b, i + 1)
        lin == IF k # -1 /\ (vi = At(b, k) \/ vi + At(b, k) = 10)
               THEN <<(<<i, k>>)>> ELSE <<>>
        Dir(dc) == LET j == findNextInDir(b, getRow(i), getCol(i), 1, dc)
                   IN  IF j > i /\ isValidPair(b, i, j) THEN <<(<<i, j>>)>> ELSE <<>>
    IN  lin \o Dir(0) \o Dir(1) \o Dir(-1)

RECURSIVE MovesFromOn(_, _)
MovesFromOn(b, i) ==
    IF i >= Len(b) THEN <<>>
    ELSE IF At(b, i) <= 0 THEN MovesFromOn(b, i + 1)
    ELSE MovesFrom(b, i) \o MovesFromOn(b, i + 1)

findAllMoves(b) == MovesFromOn(b, 0)

\* ---- applyMove (src/solver.js:72-83) ----
\* the value a hole of an array reads as (undefined): it is not > 0 and is
\* neither a cleared cell nor the sentinel
Undefined == -2

RowHasActive(row) == \E k \in 1..Len(row) : row[k] > 0

\* faulty variant: compaction drops the cleared cells of a row, not cleared rows
KeepRowsDropsCells(b, r) ==
    LET RECURSIVE Live(_)
        Live(k) == IF k > Len(b) THEN <<>>
                   ELSE (IF b[k] = 0 THEN <<>> ELSE <<b[k]>>) \o Live(k + 1)
    IN  Live(r * ROW_SIZE + 1)

\* faulty variant: a row stays when it holds a cell that is not the sentinel
RECURSIVE KeepRowsWithCleared(_, _)
KeepRowsWithCleared(b, r) ==
    IF r >= RowsOf(b) THEN <<>>
    ELSE LET row == Slice(b, r * ROW_SIZE, r * ROW_SIZE + ROW_SIZE)
         IN  (IF \E k \in 1..Len(row) : row[k] >= 0 THEN row ELSE <<>>)
                 \o KeepRowsWithCleared(b, r + 1)

RECURSIVE KeepRows(_, _)
KeepRows(b, r) ==
    IF r >= RowsOf(b) THEN <<>>
    ELSE LET row == Slice(b, r * ROW_SIZE, r * ROW_SIZE + ROW_SIZE)
         IN  (IF RowHasActive(row) THEN row ELSE <<>>) \o KeepRows(b, r + 1)

\* faulty variant: only the first cell of the pair is cleared
applyMoveOneCell(b, i, j) ==
    KeepRows([k \in 1..Len(b) |-> IF k = i + 1 THEN 0 ELSE b[k]], 0)

\* faulty variant: only the first cell of the pair is written
WriteClearedFirstOnly(b, i, j) ==
    LET n == IF i >= Len(b) THEN i + 1 ELSE Len(b)
    IN  [k \in 1..n |-> IF k = i + 1 THEN 0
                        ELSE IF k <= Len(b) THEN b[k]
                        ELSE Undefined]

\* faulty variant: the second write lands one cell past the second cell
WriteClearedPastSecond(b, i, j) ==
    LET n == IF i >= Len(b) \/ j + 1 >= Len(b)
             THEN (IF i > j + 1 THEN i ELSE j + 1) + 1
             ELSE Len(b)
    IN  [k \in 1..n |-> IF k = i + 1 \/ k = j + 2 THEN 0
                        ELSE IF k <= Len(b) THEN b[k]
                        ELSE Undefined]

\* faulty variant: only the second cell of the pair is written
WriteClearedSecondOnly(b, i, j) ==
    LET n == IF j >= Len(b) THEN j + 1 ELSE Len(b)
    IN  [k \in 1..n |-> IF k = j + 1 THEN 0
                        ELSE IF k <= Len(b) THEN b[k]
                        ELSE Undefined]

\* lines 73-74: the copy of the board after "b[i] = 0; b[j] = 0".  A write at
\* or past the end lengthens the array and leaves holes before it; a write at
\* a negative index sets a property and no element.
WriteCleared(b, i, j) ==
    LET n == IF i >= Len(b) \/ j >= Len(b)
             THEN (IF i > j THEN i ELSE j) + 1
             ELSE Len(b)
    IN  [k \in 1..n |-> IF k = i + 1 \/ k = j + 1 THEN 0
                        ELSE IF k <= Len(b) THEN b[k]
                        ELSE Undefined]

applyMove(b, i, j) == KeepRows(WriteCleared(b, i, j), 0)

\* ---- extendBoard (src/solver.js:85-100) ----
RECURSIVE ActiveDigits(_)
ActiveDigits(b) ==
    IF b = <<>> THEN <<>>
    ELSE (IF Head(b) > 0 THEN <<Head(b)>> ELSE <<>>) \o ActiveDigits(Tail(b))

\* faulty variant: the scan stops at the last active digit
RECURSIVE LastActive(_, _)
LastActive(b, i) ==
    IF i < 0 THEN -1
    ELSE IF At(b, i) > 0 THEN i
    ELSE LastActive(b, i - 1)

\* index of the last cell that is not the sentinel, or -1
RECURSIVE LastNonSentinel(_, _)
LastNonSentinel(b, i) ==
    IF i < 0 THEN -1
    ELSE IF At(b, i) # -1 THEN i
    ELSE LastNonSentinel(b, i - 1)

RECURSIVE PopSentinels(_)
PopSentinels(b) ==
    IF b # <<>> /\ b[Len(b)] = -1 THEN PopSentinels(SubSeq(b, 1, Len(b) - 1)) ELSE b

\* faulty variant: the last row is filled up with cleared cells
RECURSIVE PadToRowCleared(_)
PadToRowCleared(b) == IF Len(b) % ROW_SIZE # 0 THEN PadToRowCleared(Append(b, 0)) ELSE b

RECURSIVE PadToRow(_)
PadToRow(b) == IF Len(b) % ROW_SIZE # 0 THEN PadToRow(Append(b, -1)) ELSE b

\* faulty variant: the board is rebuilt from the deal alone, last digit first
extendBoardDealReversed(b) ==
    LET remaining == ActiveDigits(b)
    IN  PadToRow([k \in 1..Len(remaining) |-> remaining[Len(remaining) + 1 - k]])

\* faulty variant: every sentinel of the kept prefix is dropped
extendBoardStripsSentinels(b) ==
    LET remaining == ActiveDigits(b)
        lastIndex == LastNonSentinel(b, Len(b) - 1)
        newBoard == IF lastIndex = -1 THEN <<>>
                    ELSE SelectSeq(Slice(b, 0, lastIndex + 1), LAMBDA v : v # -1)
    IN  PadToRow(newBoard \o remaining)

extendBoard(b) ==
    LET remaining == ActiveDigits(b)
        lastIndex == LastNonSentinel(b, Len(b) - 1)
        newBoard == IF lastIndex = -1 THEN <<>>
                    ELSE PopSentinels(Slice(b, 0, lastIndex + 1))
    IN  PadToRow(newBoard \o remaining)

\* ---- boardKey (src/solver.js:108) ----
\* board.join(","): each cell printed in decimal, separated by commas
NumStr == <<"0", "1", "2", "3", "4", "5", "6", "7", "8", "9">>

CellStr(v) == IF v < 0 THEN "-" \o NumStr[1 - v] ELSE NumStr[v + 1]

RECURSIVE JoinCells(_)
JoinCells(b) ==
    IF b = <<>> THEN ""
    ELSE IF Len(b) = 1 THEN CellStr(b[1])
    ELSE CellStr(b[1]) \o "," \o JoinCells(Tail(b))

boardKey(b) == JoinCells(b)

\* ---- solve (src/solver.js:111-236) ----
\* the ranking key of a result: (remaining count, sequence length)
KeyLess(a, b) ==
    LET ra == remainingCount(a.board)
        rb == remainingCount(b.board)
    IN  IF ra # rb THEN ra < rb ELSE Len(a.seq) < Len(b.seq)

\* Array.prototype.sort with the comparator of lines 173-176: a stable sort,
\* written as an insertion sort that keeps equal keys in their order
RECURSIVE InsertResult(_, _)
InsertResult(sorted, x) ==
    IF sorted = <<>> THEN <<x>>
    ELSE IF KeyLess(x, sorted[Len(sorted)])
         THEN Append(InsertResult(SubSeq(sorted, 1, Len(sorted) - 1), x), sorted[Len(sorted)])
         ELSE Append(sorted, x)

RECURSIVE SortResults(_)
SortResults(rs) ==
    IF rs = <<>> THEN <<>>
    ELSE InsertResult(SortResults(SubSeq(rs, 1, Len(rs) - 1)), rs[Len(rs)])

\* faulty variant: a terminal is kept only while the list has room
AdmitsOnlyWhenRoom(results, k, cur, seq) == Len(results) < k

\* lines 162-181: a terminal board cur reached by seq is admitted when the
\* list is not full or its key precedes the key of the last entry
Admits(results, k, cur, seq) ==
    \/ Len(results) < k
    \/ KeyLess([seq |-> seq, board |-> cur], results[Len(results)])

\* faulty variant: a terminal reached without any move is not recorded
AdmitAfterMovesOnly(results, k, cur, seq) ==
    IF seq # <<>> /\ Admits(results, k, cur, seq)
    THEN LET pushed == SortResults(Append(results, [seq |-> seq, board |-> cur]))
         IN  IF Len(pushed) > k THEN SubSeq(pushed, 1, Len(pushed) - 1) ELSE pushed
    ELSE results

\* faulty variant: the entry past the limit is not removed
AdmitKeepsAll(results, k, cur, seq) ==
    IF Admits(results, k, cur, seq)
    THEN SortResults(Append(results, [seq |-> seq, board |-> cur]))
    ELSE results

Admit(results, k, cur, seq) ==
    IF Admits(results, k, cur, seq)
    THEN LET pushed == SortResults(Append(results, [seq |-> seq, board |-> cur]))
         IN  IF Len(pushed) > k THEN SubSeq(pushed, 1, Len(pushed) - 1) ELSE pushed
    ELSE results

\* faulty variant: a recorded terminal never raises the solved flag
SolvesNever(results, k, cur, seq) == FALSE

\* lines 170-180: solved is set when a terminal without active cells is admitted
Solves(results, k, cur, seq) == Admits(results, k, cur, seq) /\ remainingCount(cur) = 0

\* lines 190-201: moves that remove no row first, each group in its order
causesRemoval(b, m) == Len(applyMove(b, m[1], m[2])) < Len(b)

\* faulty variant: once the sink has a report, the two groups change places
sortMovesBySink(b, moves) ==
    IF reports = <<>>
    THEN SelectSeq(moves, LAMBDA m : ~causesRemoval(b, m))
             \o SelectSeq(moves, LAMBDA m : causesRemoval(b, m))
    ELSE SelectSeq(moves, LAMBDA m : causesRemoval(b, m))
             \o SelectSeq(moves, LAMBDA m : ~causesRemoval(b, m))

sortMoves(b, moves) ==
    SelectSeq(moves, LAMBDA m : ~causesRemoval(b, m))
        \o SelectSeq(moves, LAMBDA m : causesRemoval(b, m))

\* lines 136-159: the message given to the progress callback when a report is
\* due at a newly explored board; the counters are those after lines 131-132
ProgressMessage(b, seq, mp) ==
    [explored |-> statesExplored + 1,
     skipped |-> statesSkipped,
     best |-> IF topResults = <<>> THEN <<>> ELSE <<remainingCount(topResults[1].board)>>,
     current |-> remainingCount(b),
     depth |-> Len(seq),
     moves |-> Slice(mp, 0, 10)]

\* lines 183-185 and 224-226: moveProgress.length = depth when it is longer
CutProgress(mp, depth) == IF Len(mp) > depth THEN SubSeq(mp, 1, depth) ELSE mp

\* lines 204-208: the entry of this depth is created or its total updated
OpenProgress(mp, depth, n) ==
    IF Len(mp) > depth THEN [mp EXCEPT ![depth + 1].total = n]
    ELSE Append(mp, [total |-> n, current |-> 0])

\* faulty variant: no board counts as visited
hasVisitedNever(b) == FALSE

\* lines 126-127: the board's key is in the visited set
hasVisited(b) == boardKey(b) \in visited

\* one call dfs(b, seq) up to its first recursive call or its return; stk is
\* the caller's stack and mp the move progress the caller left.  Whether a
\* report is due (line 137) is decided by the clock.
EnterDfs(b, seq, stk, mp) ==
    IF solved
    THEN /\ stack' = stk
         /\ moveProgress' = mp
         /\ UNCHANGED <<curSeq, visited, topResults, statesExplored, statesSkipped, solved,
                        reports>>
    ELSE IF hasVisited(b)
    THEN /\ statesSkipped' = statesSkipped + 1
         /\ stack' = stk
         /\ moveProgress' = mp
         /\ UNCHANGED <<curSeq, visited, topResults, statesExplored, solved, reports>>
    ELSE \E moves \in {findAllMoves(b)} :
             /\ visited' = visited \cup {boardKey(b)}
             /\ statesExplored' = statesExplored + 1
             /\ statesSkipped' = statesSkipped
             /\ \E due \in IF progressCallback /\ Len(reports) < MaxReports
                            THEN BOOLEAN ELSE {FALSE} :
                    reports' = IF due THEN Append(reports, ProgressMessage(b, seq, mp))
                               ELSE reports
             /\ IF moves = <<>>
                THEN /\ topResults' = Admit(topResults, topK, b, seq)
                     /\ solved' = Solves(topResults, topK, b, seq)
                     /\ stack' = stk
                     /\ curSeq' = curSeq
                     /\ moveProgress' = CutProgress(mp, Len(seq))
                ELSE /\ stack' = Append(stk, [board |-> b, moves |-> sortMoves(b, moves), moveIdx |-> 0])
                     /\ curSeq' = seq
                     /\ moveProgress' = OpenProgress(mp, Len(seq), Len(moves))
                     /\ UNCHANGED <<topResults, solved>>

\* line 229: dfs(board, [])
DfsRoot ==
    /\ pc = "call"
    /\ EnterDfs(board, <<>>, <<>>, moveProgress)
    /\ pc' = IF stack' = <<>> THEN "done" ELSE "dfs"
    /\ UNCHANGED <<boardVars, topK, progressCallback, groupVars, multiVars>>

\* lines 210-221: the next move of the innermost activation is applied and
\* dfs is called on the new board
DfsNext ==
    /\ pc = "dfs"
    /\ LET f == stack[Len(stack)]
       IN  /\ ~solved
           /\ f.moveIdx < Len(f.moves)
           /\ \E move \in {f.moves[f.moveIdx + 1]} :
              \E newBoard \in {applyMove(f.board, move[1], move[2])} :
                  EnterDfs(newBoard, Append(curSeq, move),
                           [stack EXCEPT ![Len(stack)].moveIdx = f.moveIdx + 1],
                           [moveProgress EXCEPT ![Len(stack)].current = f.moveIdx + 1])
    /\ pc' = "dfs"
    /\ UNCHANGED <<boardVars, topK, progressCallback, groupVars, multiVars>>

\* faulty variant: the caller does not pop the move it pushed
DfsReturnNoPop ==
    /\ pc = "dfs"
    /\ LET f == stack[Len(stack)]
       IN  solved \/ f.moveIdx = Len(f.moves)
    /\ stack' = SubSeq(stack, 1, Len(stack) - 1)
    /\ curSeq' = curSeq
    /\ pc' = IF Len(stack) = 1 THEN "done" ELSE "dfs"
    /\ UNCHANGED <<boardVars, topK, visited, topResults, statesExplored, statesSkipped,
                   solved, progressCallback, moveProgress, reports, groupVars, multiVars>>

\* lines 211 and 223-227: the innermost activation returns, its loop finished
\* or cut by solved; the caller pops the move it pushed
DfsReturn ==
    /\ pc = "dfs"
    /\ LET f == stack[Len(stack)]
       IN  solved \/ f.moveIdx = Len(f.moves)
    /\ stack' = SubSeq(stack, 1, Len(stack) - 1)
    /\ curSeq' = IF Len(stack) > 1 THEN SubSeq(curSeq, 1, Len(curSeq) - 1) ELSE curSeq
    /\ moveProgress' = IF stack[Len(stack)].moveIdx = Len(stack[Len(stack)].moves)
                       THEN CutProgress(moveProgress, Len(stack) - 1)
                       ELSE moveProgress
    /\ pc' = IF Len(stack) = 1 THEN "done" ELSE "dfs"
    /\ UNCHANGED <<boardVars, topK, visited, topResults, statesExplored, statesSkipped,
                   solved, progressCallback, reports, groupVars, multiVars>>

\* ---- display grouping (src/solver.js:239-457) ----
\* faulty variant: only the flattened board and the column are looked along
hasClearPathNoDiagonal(i0, j0, b) ==
    IF i0 = j0 THEN FALSE
    ELSE LET i == Min2(i0, j0)
             j == IF i0 > j0 THEN i0 ELSE j0
         IN  IF \A k \in (i + 1)..(j - 1) : At(b, k) <= 0 THEN TRUE
             ELSE IF getCol(i) = getCol(j)
                  THEN \A r \in (getRow(i) + 1)..(getRow(j) - 1) :
                          At(b, getIndex(r, getCol(i))) <= 0
             ELSE FALSE

hasClearPath(i0, j0, b) ==
    IF i0 = j0 THEN FALSE
    ELSE LET i == Min2(i0, j0)
             j == IF i0 > j0 THEN i0 ELSE j0
             ri == getRow(i)
             ci == getCol(i)
             rj == getRow(j)
             cj == getCol(j)
             rd == rj - ri
             cd == cj - ci
             cs == IF cd > 0 THEN 1 ELSE -1
             Abs(x) == IF x < 0 THEN -x ELSE x
         IN  IF \A k \in (i + 1)..(j - 1) : At(b, k) <= 0 THEN TRUE
             ELSE IF ci = cj
                  THEN \A r \in (ri + 1)..(rj - 1) : At(b, getIndex(r, ci)) <= 0
             ELSE IF Abs(rd) = Abs(cd)
                  THEN \A r \in (ri + 1)..(rj - 1) :
                          LET c == ci + cs * (r - ri)
                          IN  c >= 0 /\ c < ROW_SIZE /\ At(b, getIndex(r, c)) <= 0
             ELSE FALSE

isMoveValidOnBoard(b, move) ==
    IF move[1] >= Len(b) \/ move[2] >= Len(b) THEN FALSE
    ELSE isValidPair(b, move[1], move[2]) /\ hasClearPath(move[1], move[2], b)

\* the first row left without an active cell once the move's cells are
\* cleared, or -1 when the move removed no row
getRemovedRow(boardBefore, boardAfter, move) ==
    IF RowsOf(boardBefore) = RowsOf(boardAfter) THEN -1
    ELSE LET tempBoard == [k \in 1..Len(boardBefore) |->
                              IF k = move[1] + 1 \/ k = move[2] + 1 THEN 0
                              ELSE boardBefore[k]]
             empty == {r \in 0..(RowsOf(boardBefore) - 1) :
                          ~RowHasActive(Slice(tempBoard, r * ROW_SIZE, r * ROW_SIZE + ROW_SIZE))}
         IN  IF empty = {} THEN -1
             ELSE CHOOSE r \in empty : \A q \in empty : r <= q

isDiagonalMove(move) ==
    getRow(move[1]) # getRow(move[2]) /\ getCol(move[1]) # getCol(move[2])

diagonalCrossesRow(move, removedRow) ==
    LET ri == getRow(move[1])
        ci == getCol(move[1])
        rj == getRow(move[2])
        cj == getCol(move[2])
    IN  IF ri = rj \/ ci = cj THEN FALSE
        ELSE IF ri = removedRow \/ rj = removedRow THEN FALSE
        ELSE Min2(ri, rj) < removedRow /\ removedRow < (IF ri > rj THEN ri ELSE rj)

\* lines 341-353: replaying the sequence, tag each move with whether it
\* shortened the board and with the row getRemovedRow names (-1 for none)
RECURSIVE TagMoves(_, _)
TagMoves(testBoard, moves) ==
    IF moves = <<>> THEN <<>>
    ELSE LET move == Head(moves)
             after == applyMove(testBoard, move[1], move[2])
             tag == IF Len(after) < Len(testBoard)
                    THEN [removal |-> TRUE, row |-> getRemovedRow(testBoard, after, move)]
                    ELSE [removal |-> FALSE, row |-> -1]
         IN  <<tag>> \o TagMoves(after, Tail(moves))

RECURSIVE ApplyAll(_, _)
ApplyAll(b, moves) ==
    IF moves = <<>> THEN b
    ELSE ApplyAll(applyMove(b, Head(moves)[1], Head(moves)[2]), Tail(moves))

\* faulty variant: the moves deferred by a round are forgotten
SubGroupsDropDeferred(remaining, segmentBoard, result) ==
    IF remaining = <<>> THEN [result |-> result, board |-> segmentBoard]
    ELSE LET valid == SelectSeq(remaining, LAMBDA mv : isMoveValidOnBoard(segmentBoard, mv))
             subgroup == IF valid = <<>> THEN <<Head(remaining)>> ELSE valid
         IN  [result |-> Append(result, [board |-> segmentBoard, moves |-> subgroup,
                                         rowRemovalIdx |-> -1]),
              board |-> ApplyAll(segmentBoard, subgroup)]

RECURSIVE SubGroupsStaleBoard(_, _, _)
\* SubGroups with the next round started on the board of the round before
SubGroupsStaleBoard(remaining, segmentBoard, result) ==
    IF remaining = <<>> THEN [result |-> result, board |-> segmentBoard]
    ELSE LET valid == SelectSeq(remaining, LAMBDA mv : isMoveValidOnBoard(segmentBoard, mv))
             invalid == SelectSeq(remaining, LAMBDA mv : ~isMoveValidOnBoard(segmentBoard, mv))
             subgroup == IF valid = <<>> THEN <<Head(invalid)>> ELSE valid
             deferred == IF valid = <<>> THEN Tail(invalid) ELSE invalid
         IN  SubGroupsStaleBoard(deferred, segmentBoard,
                       Append(result, [board |-> segmentBoard, moves |-> subgroup,
                                       rowRemovalIdx |-> -1]))

\* lines 374-408: the moves of a segment are split into steps of moves that
\* are valid on the board the step starts from
RECURSIVE SubGroups(_, _, _)
SubGroups(remaining, segmentBoard, result) ==
    IF remaining = <<>> THEN [result |-> result, board |-> segmentBoard]
    ELSE LET valid == SelectSeq(remaining, LAMBDA mv : isMoveValidOnBoard(segmentBoard, mv))
             invalid == SelectSeq(remaining, LAMBDA mv : ~isMoveValidOnBoard(segmentBoard, mv))
             subgroup == IF valid = <<>> THEN <<Head(invalid)>> ELSE valid
             deferred == IF valid = <<>> THEN Tail(invalid) ELSE invalid
         IN  SubGroups(deferred, ApplyAll(segmentBoard, subgroup),
                       Append(result, [board |-> segmentBoard, moves |-> subgroup,
                                       rowRemovalIdx |-> -1]))

\* faulty variant: the row-removal move joins the last step without the validity check
canMergeUnchecked(result, move, removedRow) ==
    IF result = <<>> THEN FALSE
    ELSE LET lastStep == result[Len(result)]
         IN  /\ move[1] < Len(lastStep.board) /\ move[2] < Len(lastStep.board)
             /\ \/ removedRow = -1
                \/ \A k \in 1..Len(lastStep.moves) :
                      ~(isDiagonalMove(lastStep.moves[k])
                        /\ diagonalCrossesRow(lastStep.moves[k], removedRow))

\* lines 413-450: a row-removal move joins the last step when it is valid on
\* that step's board and no diagonal move of the step crosses the removed row
canMerge(result, move, removedRow) ==
    IF result = <<>> THEN FALSE
    ELSE LET lastStep == result[Len(result)]
         IN  /\ isMoveValidOnBoard(lastStep.board, move)
             /\ \/ removedRow = -1
                \/ \A k \in 1..Len(lastStep.moves) :
                      ~(isDiagonalMove(lastStep.moves[k])
                        /\ diagonalCrossesRow(lastStep.moves[k], removedRow))

\* faulty variant: a merged row-removal move replaces the moves of the last step
PlaceRemovalOverwrites(result, currentBoard, move, removedRow) ==
    IF canMerge(result, move, removedRow)
    THEN LET lastStep == result[Len(result)]
         IN  [result EXCEPT ![Len(result)] =
                 [board |-> lastStep.board, moves |-> <<move>>, rowRemovalIdx |-> 0]]
    ELSE Append(result, [board |-> currentBoard, moves |-> <<move>>, rowRemovalIdx |-> 0])

\* PlaceRemoval that starts a separate step on the board of the step before
PlaceRemovalOnStepBoard(result, currentBoard, move, removedRow) ==
    IF canMerge(result, move, removedRow)
    THEN LET lastStep == result[Len(result)]
         IN  [result EXCEPT ![Len(result)] =
                 [board |-> lastStep.board,
                  moves |-> Append(lastStep.moves, move),
                  rowRemovalIdx |-> Len(lastStep.moves)]]
    ELSE Append(result, [board |-> IF result = <<>> THEN currentBoard
                                   ELSE result[Len(result)].board,
                         moves |-> <<move>>, rowRemovalIdx |-> 0])

PlaceRemoval(result, currentBoard, move, removedRow) ==
    IF canMerge(result, move, removedRow)
    THEN LET lastStep == result[Len(result)]
         IN  [result EXCEPT ![Len(result)] =
                 [board |-> lastStep.board,
                  moves |-> Append(lastStep.moves, move),
                  rowRemovalIdx |-> Len(lastStep.moves)]]
    ELSE Append(result, [board |-> currentBoard, moves |-> <<move>>, rowRemovalIdx |-> 0])

\* lines 361-454: the loop over i = 0..moves.length
RECURSIVE GroupLoop(_, _, _, _, _, _)
GroupLoop(moves, tags, i, result, currentBoard, segmentStart) ==
    IF i > Len(moves) THEN result
    ELSE LET isRowRemoval == i < Len(moves) /\ tags[i + 1].removal
             isLast == i = Len(moves)
         IN  IF ~(isRowRemoval \/ isLast)
             THEN GroupLoop(moves, tags, i + 1, result, currentBoard, segmentStart)
             ELSE LET seg == IF i > segmentStart
                             THEN SubGroups(Slice(moves, segmentStart, i), currentBoard, result)
                             ELSE [result |-> result, board |-> currentBoard]
                  IN  IF isRowRemoval
                      THEN GroupLoop(moves, tags, i + 1,
                                     PlaceRemoval(seg.result, seg.board, moves[i + 1], tags[i + 1].row),
                                     applyMove(seg.board, moves[i + 1][1], moves[i + 1][2]),
                                     i + 1)
                      ELSE GroupLoop(moves, tags, i + 1, seg.result, seg.board, i + 1)

groupMovesForDisplay(startBoard, moves) ==
    GroupLoop(moves, TagMoves(startBoard, moves), 0, <<>>, startBoard, 0)

\* ---- solveExtendedPhase and solveMultiPhase (src/solver.js:476-702) ----
\* lines 552-557: the comparator of the combined results
ExtLess(a, b) ==
    IF a.remaining # b.remaining THEN a.remaining < b.remaining
    ELSE a.totalMoves < b.totalMoves

RECURSIVE InsertExt(_, _)
InsertExt(sorted, x) ==
    IF sorted = <<>> THEN <<x>>
    ELSE IF ExtLess(x, sorted[Len(sorted)])
         THEN Append(InsertExt(SubSeq(sorted, 1, Len(sorted) - 1), x), sorted[Len(sorted)])
         ELSE Append(sorted, x)

RECURSIVE SortExt(_)
SortExt(rs) ==
    IF rs = <<>> THEN <<>>
    ELSE InsertExt(SortExt(SubSeq(rs, 1, Len(rs) - 1)), rs[Len(rs)])

\* faulty variant: the lineage records the candidate's board before its extension
CombinedBeforeExtension(state, extended, results) ==
    [r \in 1..Len(results) |->
        [phaseSeqs |-> Append(state.phaseSeqs, results[r].seq),
         phaseBoards |-> Append(state.phaseBoards, state.board),
         finalBoard |-> results[r].board,
         totalMoves |-> Len(state.seq) + Len(results[r].seq),
         remaining |-> remainingCount(results[r].board)]]

\* lines 516-533: the results of one solve call joined to the lineage of the
\* candidate state that was extended to extended
Combined(state, extended, results) ==
    [r \in 1..Len(results) |->
        [phaseSeqs |-> Append(state.phaseSeqs, results[r].seq),
         phaseBoards |-> Append(state.phaseBoards, extended),
         finalBoard |-> results[r].board,
         totalMoves |-> Len(state.seq) + Len(results[r].seq),
         remaining |-> remainingCount(results[r].board)]]

\* lines 633-638
Phase1States(results, initialBoard) ==
    [r \in 1..Len(results) |->
        [seq |-> results[r].seq,
         board |-> results[r].board,
         phaseSeqs |-> <<results[r].seq>>,
         phaseBoards |-> <<initialBoard>>]]

\* lines 675-684
NextStates(results) ==
    [r \in 1..Len(results) |->
        [seq |-> results[r].phaseSeqs[Len(results[r].phaseSeqs)],
         board |-> results[r].finalBoard,
         phaseSeqs |-> results[r].phaseSeqs,
         phaseBoards |-> results[r].phaseBoards]]

\* lines 662-665: whether the best of a phase replaces the best solution
Improves(phaseBest, best) ==
    \/ best = <<>>
    \/ phaseBest.remaining < best[1].remaining
    \/ (phaseBest.remaining = best[1].remaining /\ phaseBest.totalMoves < best[1].totalMoves)

\* faulty variant: the loop stops only when the best remaining count got worse
StalledOnlyWhenWorse(p, phaseBest, phases) ==
    /\ p > 2
    /\ phaseBest.remaining > phases[Len(phases)].topResults[1].remaining

\* lines 687-694: from phase 3 on, the best of the phase did not improve on
\* the best of the phase recorded before it (phases holds the earlier records)
Stalled(p, phaseBest, phases) ==
    /\ p > 2
    /\ phaseBest.remaining >= phases[Len(phases)].topResults[1].remaining

\* solve's locals as a new call sets them (lines 112-117)
SolveReset ==
    /\ stack' = <<>>
    /\ curSeq' = <<>>
    /\ visited' = {}
    /\ topResults' = <<>>
    /\ statesExplored' = 0
    /\ statesSkipped' = 0
    /\ solved' = FALSE
    /\ moveProgress' = <<>>
    /\ UNCHANGED <<progressCallback, reports>>

\* solveExtendedPhase is entered for phase p (lines 485-488), or
\* solveMultiPhase returns when p exceeds the limit (lines 641, 697-701)
StartPhase(p) ==
    /\ phaseNum' = p
    /\ candIdx' = 0
    /\ allResults' = <<>>
    /\ foundExactSolution' = FALSE
    /\ extStatesExplored' = 0
    /\ pc' = IF p <= maxExtensions THEN "ext" ELSE "returned"

\* faulty variant of Phase1Solved: phase 1 is never taken as having solved the board
Phase1SolvedNever(results) == FALSE

\* line 615: the best result of phase 1 leaves no active cell
Phase1Solved(results) == remainingCount(results[1].board) = 0

\* lines 593-638: phase 1 has been solved
Phase1Done ==
    /\ pc = "done"
    /\ phaseNum = 1
    /\ totalStatesExplored' = totalStatesExplored + statesExplored
    /\ IF topResults = <<>>
       THEN /\ allPhases' = <<[phaseNum |-> 1, statesExplored |-> statesExplored,
                               topResults |-> <<>>]>>
            /\ pc' = "returned"
            /\ UNCHANGED <<bestSolution, currentStates, phaseNum, candIdx, allResults,
                           foundExactSolution, extStatesExplored>>
       ELSE /\ allPhases' = <<[phaseNum |-> 1, statesExplored |-> statesExplored,
                               topResults |-> topResults]>>
            /\ IF Phase1Solved(topResults)
               THEN /\ bestSolution' = <<[phaseSeqs |-> <<topResults[1].seq>>,
                                          phaseBoards |-> <<start>>,
                                          finalBoard |-> topResults[1].board,
                                          totalMoves |-> Len(topResults[1].seq),
                                          remaining |-> 0]>>
                    /\ pc' = "returned"
                    /\ UNCHANGED <<currentStates, phaseNum, candIdx, allResults,
                                   foundExactSolution, extStatesExplored>>
               ELSE /\ currentStates' = Phase1States(topResults, start)
                    /\ StartPhase(2)
                    /\ UNCHANGED bestSolution
    /\ UNCHANGED <<boardVars, solveVars, groupVars, maxExtensions>>

\* lines 490-508: the next candidate is extended and solve is called on it
ExtendCandidate ==
    /\ pc = "ext"
    /\ candIdx < Len(currentStates)
    /\ ~foundExactSolution
    /\ board' = extendBoard(currentStates[candIdx + 1].board)
    /\ SolveReset
    /\ pc' = "call"
    /\ UNCHANGED <<text, start, op, played, topK, groupVars, multiVars>>

\* faulty variant: an exact solution among the results is not noticed
CombineResultsNoFlag ==
    /\ pc = "done"
    /\ phaseNum >= 2
    /\ extStatesExplored' = extStatesExplored + statesExplored
    /\ allResults' = allResults \o Combined(currentStates[candIdx + 1], board, topResults)
    /\ candIdx' = candIdx + 1
    /\ pc' = "ext"
    /\ UNCHANGED <<boardVars, solveVars, groupVars, maxExtensions, phaseNum, currentStates,
                   allPhases, bestSolution, totalStatesExplored, foundExactSolution>>

\* lines 509-548: the results of the solve call are combined with the
\* candidate's lineage; an exact solution ends the loop over the candidates
CombineResults ==
    /\ pc = "done"
    /\ phaseNum >= 2
    /\ extStatesExplored' = extStatesExplored + statesExplored
    /\ allResults' = allResults \o Combined(currentStates[candIdx + 1], board, topResults)
    /\ foundExactSolution' =
          (foundExactSolution \/ \E r \in 1..Len(topResults) :
                                     remainingCount(topResults[r].board) = 0)
    /\ candIdx' = candIdx + 1
    /\ pc' = "ext"
    /\ UNCHANGED <<boardVars, solveVars, groupVars, maxExtensions, phaseNum, currentStates,
                   allPhases, bestSolution, totalStatesExplored>>

\* lines 551-571 and 645-694: the phase's results are ranked and cut to topK,
\* solveExtendedPhase returns, and solveMultiPhase records the phase, updates
\* the best solution and decides whether another phase is run
PhaseDone ==
    /\ pc = "ext"
    /\ candIdx = Len(currentStates) \/ foundExactSolution
    /\ LET sorted == SortExt(allResults)
           results == Slice(sorted, 0, topK)
       IN  /\ totalStatesExplored' = totalStatesExplored + extStatesExplored
           /\ IF results = <<>>
              THEN /\ pc' = "returned"
                   /\ UNCHANGED <<allPhases, bestSolution, currentStates, phaseNum, candIdx,
                                  allResults, foundExactSolution, extStatesExplored>>
              ELSE LET phaseBest == results[1]
                   IN  /\ allPhases' = Append(allPhases,
                                              [phaseNum |-> phaseNum,
                                               statesExplored |-> extStatesExplored,
                                               topResults |-> results])
                       /\ bestSolution' = IF Improves(phaseBest, bestSolution)
                                          THEN <<phaseBest>> ELSE bestSolution
                       /\ IF foundExactSolution
                          THEN /\ pc' = "returned"
                               /\ UNCHANGED <<currentStates, phaseNum, candIdx, allResults,
                                              foundExactSolution, extStatesExplored>>
                          ELSE /\ currentStates' = NextStates(results)
                               /\ IF Stalled(phaseNum, phaseBest, allPhases)
                                  THEN /\ pc' = "returned"
                                       /\ UNCHANGED <<phaseNum, candIdx, allResults,
                                                      foundExactSolution, extStatesExplored>>
                                  ELSE StartPhase(phaseNum + 1)
    /\ UNCHANGED <<boardVars, solveVars, groupVars, maxExtensions>>

\* ---- inputs ----
\* cell characters of the boards that are played and solved
PlayChars == {"1", "2", "9"}

\* characters of the texts that exercise the parser: a digit, a cleared
\* cell, a blank and a character that is no cell
ParseChars == {"1", ".", " ", "x"}

Lines == SeqsUpTo(PlayChars, 1, MaxCols)

ParseLinesIn == SeqsUpTo(ParseChars, 0, MaxCols)

\* lines wider than a row: cell characters followed by WideFill cleared cells
WideLines == {l \o [k \in 1..WideFill |-> "."] : l \in [1..MaxCols -> {"1", "2"}]}

\* two-digit lines one cell longer than MaxCols
LongLines == [1..(MaxCols + 1) -> {"1", "2"}]

\* narrow lines of the boards that are one row taller than MaxRows
TallLines == SeqsUpTo({"1", "2"}, 1, 2)

\* full rows that hold one digit and cleared cells
SoloLines ==
    {[k \in 1..ROW_SIZE |-> IF k = p THEN d ELSE "."] : p \in 1..ROW_SIZE, d \in PlayChars}

RECURSIVE JoinLines(_)
JoinLines(ls) ==
    IF ls = <<>> THEN <<>>
    ELSE IF Len(ls) = 1 THEN ls[1]
    ELSE ls[1] \o <<"\n">> \o JoinLines(Tail(ls))

\* boards one row taller than MaxRows, every row of them shorter than a row
TallTexts == {JoinLines(ls) : ls \in [1..(MaxRows + 1) -> TallLines]}

Texts ==
    {JoinLines(ls) : ls \in SeqsUpTo(Lines, 1, MaxRows)
                            \cup SeqsUpTo(ParseLinesIn \cup WideLines, 0, MaxRows)}
        \cup SoloLines
        \cup TallTexts

SolveTexts == {JoinLines(ls) : ls \in SeqsUpTo(Lines \cup LongLines, 1, MaxRows)}

MultiTexts == {JoinLines(ls) : ls \in SeqsUpTo(Lines, 1, MaxRows)}

\* boards of two digits that pair only with themselves
ProgressTexts == {JoinLines(ls) : ls \in SeqsUpTo(SeqsUpTo({"1", "2"}, 1, MaxCols), 1, MaxRows)}

NoOp == [name |-> "parse", prev |-> <<>>, i |-> -1, j |-> -1]

SolveIdle ==
    /\ topK = 0
    /\ stack = <<>>
    /\ curSeq = <<>>
    /\ visited = {}
    /\ topResults = <<>>
    /\ statesExplored = 0
    /\ statesSkipped = 0
    /\ solved = FALSE
    /\ progressCallback = FALSE
    /\ moveProgress = <<>>
    /\ reports = <<>>

GroupIdle ==
    /\ groupOf = <<>>
    /\ groups = <<>>

MultiIdle ==
    /\ maxExtensions = 0
    /\ phaseNum = 0
    /\ currentStates = <<>>
    /\ candIdx = 0
    /\ allResults = <<>>
    /\ foundExactSolution = FALSE
    /\ extStatesExplored = 0
    /\ allPhases = <<>>
    /\ bestSolution = <<>>
    /\ totalStatesExplored = 0

\* ---- the board-level machine: parse, then legal moves, extension, grouping ----
Init ==
    /\ pc = "play"
    /\ text \in Texts
    /\ start = parseBoard(text)
    /\ board = start
    /\ op = NoOp
    /\ played = <<>>
    /\ SolveIdle
    /\ GroupIdle
    /\ MultiIdle

ApplyMove ==
    /\ pc = "play"
    /\ LET moves == findAllMoves(board)
       IN  \E k \in 1..Len(moves) :
              /\ board' = applyMove(board, moves[k][1], moves[k][2])
              /\ op' = [name |-> "apply", prev |-> board, i |-> moves[k][1], j |-> moves[k][2]]
              /\ played' = Append(played, moves[k])
    /\ UNCHANGED <<pc, text, start, solveVars, groupVars, multiVars>>

ExtendBoard ==
    /\ pc = "play"
    /\ board' = extendBoard(board)
    /\ op' = [name |-> "extend", prev |-> board, i |-> -1, j |-> -1]
    /\ pc' = "extended"
    /\ UNCHANGED <<text, start, played, solveVars, groupVars, multiVars>>

\* positions outside the live range of b: before it, just past it, a row past it
OutPositions(b) == {-1, Len(b), Len(b) + ROW_SIZE}

\* applyMove is called on the parsed board with a position outside its live
\* range; the function has no failing path and returns a board
ApplyOutOfRange ==
    /\ pc = "play"
    /\ played = <<>>
    /\ \E i \in {0} \cup OutPositions(board) : \E j \in OutPositions(board) :
          /\ board' = applyMove(board, i, j)
          /\ op' = [name |-> "applyAt", prev |-> board, i |-> i, j |-> j]
    /\ pc' = "applied"
    /\ UNCHANGED <<text, start, played, solveVars, groupVars, multiVars>>

GroupPlayed ==
    /\ pc = "play"
    /\ played # <<>>
    /\ groupOf' = played
    /\ groups' = groupMovesForDisplay(start, played)
    /\ pc' = "grouped"
    /\ UNCHANGED <<boardVars, solveVars, multiVars>>

Next == ApplyMove \/ ExtendBoard \/ GroupPlayed \/ ApplyOutOfRange

Spec == Init /\ [][Next]_vars

\* the same machine started on the three-row boards only
InitTall == Init /\ text \in TallTexts

SpecTall == InitTall /\ [][Next]_vars

\* the same machine started on three-row boards with cleared cells, whose
\* third row lies two columns to the right: moves along a diagonal that
\* passes over the middle row
CrossLines == [1..2 -> {"1", "2", "."}]

CrossTexts == {JoinLines(<<a, b, <<".", ".">> \o c>>) : a, b, c \in CrossLines}

InitCross ==
    /\ pc = "play"
    /\ text \in CrossTexts
    /\ start = parseBoard(text)
    /\ board = start
    /\ op = NoOp
    /\ played = <<>>
    /\ SolveIdle
    /\ GroupIdle
    /\ MultiIdle

SpecCross == InitCross /\ [][Next]_vars

\* the same machine started on boards of MaxRows rows of MaxCols + 1 digits,
\* which leave room for three moves and more between two row removals
LongTexts == {JoinLines(ls) : ls \in [1..MaxRows -> LongLines]}

InitLong ==
    /\ pc = "play"
    /\ text \in LongTexts
    /\ start = parseBoard(text)
    /\ board = start
    /\ op = NoOp
    /\ played = <<>>
    /\ SolveIdle
    /\ GroupIdle
    /\ MultiIdle

SpecLong == InitLong /\ [][Next]_vars

\* ---- solve on a parsed board, then the grouping of one of its results ----
InitSolve ==
    /\ pc = "call"
    /\ text \in SolveTexts
    /\ start = parseBoard(text)
    /\ board = start
    /\ op = NoOp
    /\ played = <<>>
    /\ topK \in 1..MaxTopK
    /\ stack = <<>>
    /\ curSeq = <<>>
    /\ visited = {}
    /\ topResults = <<>>
    /\ statesExplored = 0
    /\ statesSkipped = 0
    /\ solved = FALSE
    /\ progressCallback = FALSE
    /\ moveProgress = <<>>
    /\ reports = <<>>
    /\ GroupIdle
    /\ MultiIdle

GroupResult ==
    /\ pc = "done"
    /\ \E r \in 1..Len(topResults) :
          /\ groupOf' = topResults[r].seq
          /\ groups' = groupMovesForDisplay(board, topResults[r].seq)
    /\ pc' = "grouped"
    /\ UNCHANGED <<boardVars, solveVars, multiVars>>

NextSolve == DfsRoot \/ DfsNext \/ DfsReturn \/ GroupResult

SpecSolve == InitSolve /\ [][NextSolve]_vars

\* solve is one synchronous call: once called, each step of dfs is taken.
\* The fair behaviours start from the boards of two digits.
InitSolveFair == InitSolve /\ text \in ProgressTexts

SpecSolveFair ==
    InitSolveFair /\ [][NextSolve]_vars /\ WF_vars(DfsRoot \/ DfsNext \/ DfsReturn)

\* ---- solveMultiPhase on a parsed board ----
\* The callbacks solveMultiPhase hands to solve only log; the reports they
\* receive are the subject of SpecProgress and are left out here.
InitMulti ==
    /\ pc = "call"
    /\ text \in MultiTexts
    /\ start = parseBoard(text)
    /\ board = start
    /\ op = NoOp
    /\ played = <<>>
    /\ topK \in 1..MaxTopK
    /\ stack = <<>>
    /\ curSeq = <<>>
    /\ visited = {}
    /\ topResults = <<>>
    /\ statesExplored = 0
    /\ statesSkipped = 0
    /\ solved = FALSE
    /\ progressCallback = FALSE
    /\ moveProgress = <<>>
    /\ reports = <<>>
    /\ GroupIdle
    /\ maxExtensions \in 1..MaxPhases
    /\ phaseNum = 1
    /\ currentStates = <<>>
    /\ candIdx = 0
    /\ allResults = <<>>
    /\ foundExactSolution = FALSE
    /\ extStatesExplored = 0
    /\ allPhases = <<>>
    /\ bestSolution = <<>>
    /\ totalStatesExplored = 0

NextMulti ==
    \/ DfsRoot
    \/ DfsNext
    \/ DfsReturn
    \/ Phase1Done
    \/ ExtendCandidate
    \/ CombineResults
    \/ PhaseDone

SpecMulti == InitMulti /\ [][NextMulti]_vars

\* ---- solveMultiPhase on one-row boards that take up to four phases ----
DeepTexts == [1..MaxDeepCols -> {"1", "2", "3"}]

InitDeep ==
    /\ pc = "call"
    /\ text \in DeepTexts
    /\ start = parseBoard(text)
    /\ board = start
    /\ op = NoOp
    /\ played = <<>>
    /\ topK \in 1..MaxTopK
    /\ stack = <<>>
    /\ curSeq = <<>>
    /\ visited = {}
    /\ topResults = <<>>
    /\ statesExplored = 0
    /\ statesSkipped = 0
    /\ solved = FALSE
    /\ progressCallback = FALSE
    /\ moveProgress = <<>>
    /\ reports = <<>>
    /\ GroupIdle
    /\ maxExtensions \in 1..MaxDeepPhases
    /\ phaseNum = 1
    /\ currentStates = <<>>
    /\ candIdx = 0
    /\ allResults = <<>>
    /\ foundExactSolution = FALSE
    /\ extStatesExplored = 0
    /\ allPhases = <<>>
    /\ bestSolution = <<>>
    /\ totalStatesExplored = 0

\* solveMultiPhase is one synchronous call: each of its steps is taken
SpecDeep == InitDeep /\ [][NextMulti]_vars /\ WF_vars(NextMulti)

\* ---- solve with or without a progress callback, reports due at any explored state ----
InitProgress ==
    /\ pc = "call"
    /\ text \in ProgressTexts
    /\ start = parseBoard(text)
    /\ board = start
    /\ op = NoOp
    /\ played = <<>>
    /\ topK \in 1..MaxTopK
    /\ stack = <<>>
    /\ curSeq = <<>>
    /\ visited = {}
    /\ topResults = <<>>
    /\ statesExplored = 0
    /\ statesSkipped = 0
    /\ solved = FALSE
    /\ progressCallback \in BOOLEAN
    /\ moveProgress = <<>>
    /\ reports = <<>>
    /\ GroupIdle
    /\ MultiIdle

NextProgress == DfsRoot \/ DfsNext \/ DfsReturn

SpecProgress == InitProgress /\ [][NextProgress]_vars

\* ---- properties ----
\* the boards reachable from b by legal moves
RECURSIVE ReachFrom(_, _)
ReachFrom(frontier, seen) ==
    IF frontier = {} THEN seen
    ELSE LET next == UNION {{applyMove(x, m[1], m[2]) : m \in Range(findAllMoves(x))} :
                            x \in frontier}
         IN  ReachFrom(next \ seen, seen \cup next)

Reachable(b) == ReachFrom({b}, {b})

TerminalCounts(b) == {remainingCount(x) : x \in {y \in Reachable(b) : findAllMoves(y) = <<>>}}

MinOf(S) == CHOOSE n \in S : \A q \in S : n <= q

\* seq replayed from b plays only moves findAllMoves offers and ends on the
\* terminal board final
RECURSIVE SoundReplay(_, _, _)
SoundReplay(b, seq, final) ==
    IF seq = <<>> THEN b = final /\ findAllMoves(b) = <<>>
    ELSE /\ Head(seq) \in Range(findAllMoves(b))
         /\ SoundReplay(applyMove(b, Head(seq)[1], Head(seq)[2]), Tail(seq), final)

RECURSIVE Flatten(_)
Flatten(steps) ==
    IF steps = <<>> THEN <<>> ELSE Head(steps).moves \o Flatten(Tail(steps))

Count(seq, x) == Cardinality({k \in 1..Len(seq) : seq[k] = x})

SameMoves(a, b) ==
    /\ Len(a) = Len(b)
    /\ \A x \in Range(a) \cup Range(b) : Count(a, x) = Count(b, x)

\* C1: when solve returns, its first result has the least remaining count of
\* all terminal boards reachable from the start board by legal moves (so a
\* remaining count of 0 whenever the empty board is reachable).
C1_BestIsMinimum ==
    pc = "done" =>
        /\ topResults # <<>>
        /\ remainingCount(topResults[1].board) = MinOf(TerminalCounts(board))

\* a finished search with capacity 1 on a board whose terminals differ in
\* their remaining counts
C1_Witness ==
    /\ pc = "done"
    /\ topK = 1
    /\ Cardinality(TerminalCounts(board)) >= 2

\* C2: every result solve holds replays from the start board with moves of
\* findAllMoves only, ends exactly on the result's board, and that board has
\* no legal move.
C2_ResultsSound ==
    \A r \in 1..Len(topResults) :
        SoundReplay(board, topResults[r].seq, topResults[r].board)

C2_Witness ==
    /\ pc = "done"
    /\ Len(topResults) = 2
    /\ Len(topResults[2].seq) >= 3

\* C3: every move findAllMoves returns lowers the remaining count by exactly 2
\* when applied.
C3_LegalMoveRemovesTwo ==
    \A m \in Range(findAllMoves(board)) :
        remainingCount(applyMove(board, m[1], m[2])) = remainingCount(board) - 2

\* a legal move was applied and a row was compacted away
C3_Witness ==
    /\ op.name = "apply"
    /\ Len(board) < Len(op.prev)
    /\ remainingCount(board) = remainingCount(op.prev) - 2
    /\ remainingCount(board) > 0

\* C4: on a board whose length is a multiple of 9, applyMove at any two
\* in-range positions returns a board whose length is a multiple of 9 and not
\* longer than the board.
C4_ApplyKeepsRowMultiple ==
    (pc = "play" /\ Len(board) % ROW_SIZE = 0) =>
        \A i \in 0..(Len(board) - 1) : \A j \in i..(Len(board) - 1) :
            LET after == applyMove(board, i, j)
            IN  Len(after) % ROW_SIZE = 0 /\ Len(after) <= Len(board)

\* a two-row board on which some pair of positions drops a row and another
\* pair drops none
C4_Witness ==
    /\ pc = "play"
    /\ Len(board) = 2 * ROW_SIZE
    /\ \E i \in 0..(Len(board) - 1) : \E j \in 0..(Len(board) - 1) :
          Len(applyMove(board, i, j)) = ROW_SIZE
    /\ \E i \in 0..(Len(board) - 1) : \E j \in 0..(Len(board) - 1) :
          Len(applyMove(board, i, j)) = Len(board)

\* C5: every board the program observes (what parseBoard returns, and what
\* legal moves and extensions make of it) has a length that is a multiple of 9.
C5_LengthRowMultiple == Len(board) % ROW_SIZE = 0

\* C6 as stated: the moves of the steps, concatenated in step order, are the
\* sequence given to groupMovesForDisplay, in the same order.
C6_StepsConcatToSequence ==
    pc = "grouped" => Flatten(groups) = groupOf

\* C6 amended: concatenated in step order, the moves of the steps keep every
\* row-removal move at its position in the sequence, and between two row
\* removals they hold the sequence's moves of that stretch, each as often as
\* the sequence does, possibly in another order.
C6_StepsPermuteWithinSegments ==
    pc = "grouped" =>
        LET flat == Flatten(groups)
            tags == TagMoves(board, groupOf)
            cuts == {0} \cup {k \in 1..Len(groupOf) : tags[k].removal} \cup {Len(groupOf) + 1}
        IN  /\ Len(flat) = Len(groupOf)
            /\ \A k \in 1..Len(groupOf) : tags[k].removal => flat[k] = groupOf[k]
            /\ \A a \in cuts : \A b \in cuts :
                  (a < b /\ \A c \in cuts : ~(a < c /\ c < b)) =>
                      SameMoves(SubSeq(flat, a + 1, b - 1), SubSeq(groupOf, a + 1, b - 1))

\* a result of solve whose grouping changed the order of its moves
C6_Witness ==
    /\ pc = "grouped"
    /\ Flatten(groups) # groupOf

\* C7: every move of every step is valid (isMoveValidOnBoard) on the board
\* the step starts from, a merged row-removal move included.
C7_StepMovesValid ==
    pc = "grouped" =>
        \A s \in 1..Len(groups) : \A k \in 1..Len(groups[s].moves) :
            isMoveValidOnBoard(groups[s].board, groups[s].moves[k])

\* a grouping of a solve result with a row-removal move merged into a step
C7_Witness ==
    /\ pc = "grouped"
    /\ Len(groups) >= 2
    /\ \E s \in 1..Len(groups) : groups[s].rowRemovalIdx >= 1

\* C8: for a sequence of moves legal in order from the start board, the steps
\* hold as many moves as the sequence and the same moves with the same
\* multiplicities.
C8_StepsHoldAllMoves ==
    pc = "grouped" => SameMoves(Flatten(groups), groupOf)

\* a played sequence grouped into several steps, one of them with several moves
C8_Witness ==
    /\ pc = "grouped"
    /\ Len(groupOf) >= 3
    /\ Len(groups) >= 2
    /\ \E s \in 1..Len(groups) : Len(groups[s].moves) >= 2

\* the ranking key of an entry of a phase record: phase 1 holds solve's
\* results, later phases hold combined results
EntryKey(p, e) ==
    IF p = 1 THEN <<remainingCount(e.board), Len(e.seq)>>
    ELSE <<e.remaining, e.totalMoves>>

KeyLeq(a, b) == a[1] < b[1] \/ (a[1] = b[1] /\ a[2] <= b[2])

\* C9: the best solution solveMultiPhase returns has a key (remaining, total
\* moves) not greater than the key of any entry of any phase record, phase 1
\* included.
C9_BestIsGloballyBest ==
    (pc = "returned" /\ bestSolution # <<>>) =>
        \A p \in 1..Len(allPhases) : \A r \in 1..Len(allPhases[p].topResults) :
            KeyLeq(<<bestSolution[1].remaining, bestSolution[1].totalMoves>>,
                   EntryKey(allPhases[p].phaseNum, allPhases[p].topResults[r]))

\* C10: when the best result of phase 1 has remaining count 0, no extension
\* phase is run: solveMultiPhase has returned with phase 1 as its only phase
\* record and a best solution of remaining 0 whose only phase sequence is the
\* phase-1 sequence, whose phase boards are the initial board alone and whose
\* total is that sequence's length.
C10_Phase1SolvedReturnsAtOnce ==
    (/\ allPhases # <<>>
     /\ allPhases[1].topResults # <<>>
     /\ remainingCount(allPhases[1].topResults[1].board) = 0) =>
        LET best1 == allPhases[1].topResults[1]
        IN  /\ pc = "returned"
            /\ phaseNum = 1
            /\ board = start
            /\ Len(allPhases) = 1
            /\ allPhases[1].phaseNum = 1
            /\ bestSolution # <<>>
            /\ bestSolution[1].remaining = 0
            /\ bestSolution[1].phaseSeqs = <<best1.seq>>
            /\ bestSolution[1].phaseBoards = <<start>>
            /\ bestSolution[1].totalMoves = Len(best1.seq)

\* phase 1 cleared the board with several moves while more phases were allowed
C10_Witness ==
    /\ pc = "returned"
    /\ maxExtensions >= 2
    /\ Len(allPhases) = 1
    /\ bestSolution # <<>>
    /\ bestSolution[1].totalMoves >= 2

\* the search has entered a terminal board without any active cell: a board
\* emptied by moves has no row left
ZeroTerminalFound == boardKey(<<>>) \in visited

\* C11: once a zero-remaining terminal is found while a candidate is searched,
\* in any phase, no board is extended and no further state is searched, and
\* the best solution solveMultiPhase returns has remaining count 0.
C11_ZeroTerminalStopsSearch ==
    /\ [][ZeroTerminalFound => UNCHANGED <<board, visited, statesExplored, statesSkipped>>]_vars
    /\ []((pc = "returned" /\ ZeroTerminalFound) =>
              (bestSolution # <<>> /\ bestSolution[1].remaining = 0))

\* an extension phase returned on an exact solution while a candidate of the
\* phase was still waiting
C11_Witness ==
    /\ pc = "returned"
    /\ phaseNum >= 2
    /\ ZeroTerminalFound
    /\ candIdx < Len(currentStates)
    /\ bestSolution # <<>>

\* C12: solveMultiPhase returns no best solution exactly when the initial
\* board has no legal move.
C12_BestSolutionIffMoves ==
    pc = "returned" => ((bestSolution = <<>>) <=> (findAllMoves(start) = <<>>))

\* C14: on a board without any legal move solve returns exactly one result,
\* the board itself with the empty move sequence (so its remaining count is
\* the board's), and has explored exactly one state.
C14_NoMoveBoardIsOnlyResult ==
    (pc \in {"done", "grouped"} /\ findAllMoves(board) = <<>>) =>
        /\ topResults = <<[seq |-> <<>>, board |-> board]>>
        /\ remainingCount(topResults[1].board) = remainingCount(board)
        /\ statesExplored = 1
        /\ statesSkipped = 0

\* solve has returned on a two-row board that holds active cells but no move,
\* with room for more than one result
C14_Witness ==
    /\ pc = "done"
    /\ findAllMoves(board) = <<>>
    /\ Len(board) = 2 * ROW_SIZE
    /\ remainingCount(board) >= 2
    /\ topK >= 2

\* a occurs in b as a subsequence: its elements, in their order, among b's
RECURSIVE IsSubseq(_, _)
IsSubseq(a, b) ==
    IF a = <<>> THEN TRUE
    ELSE IF b = <<>> THEN FALSE
    ELSE IF Head(a) = Head(b) THEN IsSubseq(Tail(a), Tail(b))
    ELSE IsSubseq(a, Tail(b))

\* C15: extendBoard never lowers the remaining count, and the active digits
\* of the board occur in the extended board in the same relative order.
C15_ExtendKeepsDigitsInOrder ==
    op.name = "extend" =>
        /\ board = extendBoard(op.prev)
        /\ remainingCount(board) >= remainingCount(op.prev)
        /\ IsSubseq(ActiveDigits(op.prev), ActiveDigits(board))

\* a board with a cleared cell and two different active digits was extended
C15_Witness ==
    /\ op.name = "extend"
    /\ \E k \in 1..Len(op.prev) : op.prev[k] = 0
    /\ \E k, l \in 1..Len(op.prev) :
          op.prev[k] > 0 /\ op.prev[l] > 0 /\ op.prev[k] # op.prev[l]
    /\ remainingCount(board) > remainingCount(op.prev)

\* a board of one full row whose only active cell holds d, every other cell
\* being cleared
SoloRow(b, d) ==
    /\ Len(b) = ROW_SIZE
    /\ \E p \in 1..ROW_SIZE : b[p] = d /\ \A k \in 1..ROW_SIZE : k # p => b[k] = 0

\* C16 as stated: extending a one-row board whose only active cell is a digit
\* d, the other cells cleared, yields a board of whole rows in which d is at
\* the earliest non-sentinel position and every other cell is a sentinel.
C16_ExtendSoloLeavesOnlyDigit ==
    \A d \in 1..9 :
        (op.name = "extend" /\ SoloRow(op.prev, d)) =>
            /\ Len(board) % ROW_SIZE = 0
            /\ \E e \in 1..Len(board) :
                  /\ board[e] = d
                  /\ \A k \in 1..(e - 1) : board[k] = -1
                  /\ \A k \in (e + 1)..Len(board) : board[k] = -1

\* C16 amended: extending such a board yields two rows, the first the input
\* row unchanged, the second d followed by sentinels.
C16_ExtendSoloAppendsDigit ==
    \A d \in 1..9 :
        (op.name = "extend" /\ SoloRow(op.prev, d)) =>
            board = op.prev \o <<d>> \o [k \in 1..(ROW_SIZE - 1) |-> -1]

\* a row with its digit away from the first cell was extended
C16_Witness ==
    /\ op.name = "extend"
    /\ \E d \in 1..9 : SoloRow(op.prev, d) /\ op.prev[1] = 0
    /\ pc = "extended"

\* the cell a character stands for when every character takes a column
CellOfChar(ch) ==
    IF ch = "." THEN 0 ELSE IF IsDigitChar(ch) THEN DigitValue(ch) ELSE -1

\* the board whose rows are the trimmed non-blank lines mapped character by
\* character, each padded to the row width
RECURSIVE PositionalRows(_)
PositionalRows(lines) ==
    IF lines = <<>> THEN <<>>
    ELSE LET l == Trim(Head(lines))
         IN  IF l = <<>> THEN PositionalRows(Tail(lines))
             ELSE PadRow([k \in 1..Len(l) |-> CellOfChar(l[k])])
                      \o PositionalRows(Tail(lines))

\* C17: parseBoard maps each line position by position: '.' gives 0, a digit
\* itself and any other character a sentinel cell, so the digits after such a
\* character keep their column.
C17_ParseIsPositional ==
    start = PositionalRows(SplitLines(Trim(text), <<>>))

\* C18: applyMove called with a position outside 0..length-1 fails with an
\* InvalidInput outcome and returns no board, so the caller's board is the one
\* it had.
C18_OutOfRangeIsRejected ==
    op.name = "applyAt" => (pc = "InvalidInput" /\ board = op.prev)

\* C19: parseBoard given a text without any parsable row (empty, or blank
\* lines only) fails with an InvalidInput outcome instead of returning a board.
C19_EmptyTextIsRejected ==
    (\A k \in 1..Len(text) : IsSpace(text[k])) => pc = "InvalidInput"

\* no active digit lies strictly between positions i < j of the flattened board
ClearFlat(b, i, j) == \A k \in (i + 1)..(j - 1) : At(b, k) <= 0

\* i and j share a column and no active digit lies between them in it
ClearColumn(b, i, j) ==
    /\ getCol(i) = getCol(j)
    /\ \A r \in (getRow(i) + 1)..(getRow(j) - 1) :
          getIndex(r, getCol(i)) < Len(b) => At(b, getIndex(r, getCol(i))) <= 0

\* i and j share a diagonal and no active digit lies between them on it
ClearDiagonal(b, i, j) ==
    LET rd == getRow(j) - getRow(i)
        cd == getCol(j) - getCol(i)
        cs == IF cd > 0 THEN 1 ELSE -1
    IN  /\ rd > 0
        /\ (cd = rd \/ cd = -rd)
        /\ \A t \in 1..(rd - 1) :
              LET idx == getIndex(getRow(i) + t, getCol(i) + cs * t)
              IN  idx < Len(b) => At(b, idx) <= 0

\* C20: every move findAllMoves returns is a pair i < j of active digits that
\* are equal or sum to 10, with no active digit strictly between them along
\* the flattened board, their column or their diagonal.
C20_MovesAreLegalPairs ==
    pc = "play" =>
        \A m \in Range(findAllMoves(board)) :
            LET i == m[1]
                j == m[2]
            IN  /\ 0 <= i /\ i < j /\ j < Len(board)
                /\ At(board, i) \in 1..9
                /\ At(board, j) \in 1..9
                /\ (At(board, i) = At(board, j) \/ At(board, i) + At(board, j) = 10)
                /\ (\/ ClearFlat(board, i, j)
                    \/ ClearColumn(board, i, j)
                    \/ ClearDiagonal(board, i, j))

\* a three-row board with a pair two rows apart that is a move, and a pair of
\* matching digits in one column that an active digit between them blocks
C20_Witness ==
    /\ pc = "play"
    /\ \E m \in Range(findAllMoves(board)) : getRow(m[2]) - getRow(m[1]) = 2
    /\ \E i, j \in 0..(Len(board) - 1) :
          /\ getRow(j) - getRow(i) = 2
          /\ getCol(i) = getCol(j)
          /\ isValidPair(board, i, j)
          /\ At(board, i + ROW_SIZE) > 0
          /\ <<i, j>> \notin Range(findAllMoves(board))

\* what solve returns for board b and capacity k, as a function of its two
\* arguments alone: the search of lines 124-227 without the progress sink.
\* st is [visited, results, explored, skipped, solved].
RECURSIVE DfsOutcome(_, _, _, _)
DfsOutcome(st, k, b, seq) ==
    LET RECURSIVE Loop(_, _, _)
        Loop(s, moves, n) ==
            IF n > Len(moves) \/ s.solved THEN s
            ELSE Loop(DfsOutcome(s, k, applyMove(b, moves[n][1], moves[n][2]),
                                 Append(seq, moves[n])),
                      moves, n + 1)
    IN  IF st.solved THEN st
        ELSE IF boardKey(b) \in st.visited THEN [st EXCEPT !.skipped = @ + 1]
        ELSE LET moves == findAllMoves(b)
                 st1 == [st EXCEPT !.visited = @ \cup {boardKey(b)}, !.explored = @ + 1]
             IN  IF moves = <<>>
                 THEN [st1 EXCEPT !.results = Admit(@, k, b, seq),
                                  !.solved = (Admits(st.results, k, b, seq)
                                                 /\ remainingCount(b) = 0)]
                 ELSE Loop(st1, sortMoves(b, moves), 1)

SolveOutcome(b, k) ==
    LET st == DfsOutcome([visited |-> {}, results |-> <<>>, explored |-> 0, skipped |-> 0,
                          solved |-> FALSE], k, b, <<>>)
    IN  [results |-> st.results, states |-> st.explored, statesSkipped |-> st.skipped,
         uniqueStates |-> Cardinality(st.visited)]

\* C13: what solve returns (ranked results, explored, skipped and unique
\* state counts) is a function of the board and topK alone: it is the same
\* with or without a progress callback and wherever the callback fires.
C13_OutcomeIgnoresProgressSink ==
    pc = "done" =>
        [results |-> topResults, states |-> statesExplored, statesSkipped |-> statesSkipped,
         uniqueStates |-> Cardinality(visited)] = SolveOutcome(board, topK)

\* solve returned two results after the callback fired below the root
C13_Witness ==
    /\ pc = "done"
    /\ progressCallback
    /\ reports # <<>>
    /\ reports[1].depth >= 1
    /\ reports[1].moves # <<>>
    /\ Len(topResults) >= 2
    /\ statesSkipped >= 1

\* C21: on a board of whole rows, for all positions i < j, the grouping
\* layer's isMoveValidOnBoard accepts [i, j] exactly when findAllMoves lists it.
C21_ValidityAgreesWithEnumerator ==
    (pc = "play" /\ Len(board) % ROW_SIZE = 0) =>
        LET listed == Range(findAllMoves(board))
        IN  \A i \in 0..(Len(board) - 1) : \A j \in (i + 1)..(Len(board) - 1) :
                isMoveValidOnBoard(board, <<i, j>>) <=> (<<i, j>> \in listed)

\* a three-row board with a diagonal move that is not a move of the flattened
\* board, and a matching pair in one column that an active digit blocks
C21_Witness ==
    /\ pc = "play"
    /\ Len(board) = 3 * ROW_SIZE
    /\ \E m \in Range(findAllMoves(board)) :
          /\ getRow(m[2]) # getRow(m[1])
          /\ getCol(m[1]) # getCol(m[2])
          /\ \E k \in (m[1] + 1)..(m[2] - 1) : At(board, k) > 0
    /\ \E i, j \in 0..(Len(board) - 1) :
          /\ getRow(j) - getRow(i) = 2
          /\ getCol(i) = getCol(j)
          /\ isValidPair(board, i, j)
          /\ ~isMoveValidOnBoard(board, <<i, j>>)

\* the result list holds a terminal board without any active cell
ZeroRecorded == \E r \in 1..Len(topResults) : remainingCount(topResults[r].board) = 0

\* C22: once solve has recorded a terminal with remaining count 0, no board
\* is added to the visited set or counted as explored or skipped, at any
\* depth; the result list holds at most one such terminal, as its first entry.
C22_SolvedStopsSearch ==
    /\ [][ZeroRecorded => UNCHANGED <<visited, statesExplored, statesSkipped, topResults>>]_vars
    /\ [](\A r \in 1..Len(topResults) :
              remainingCount(topResults[r].board) = 0 => r = 1)

\* the search is unwinding from a recorded solution, two levels deep or more,
\* past a loop that still had moves to try
C22_Witness ==
    /\ pc = "dfs"
    /\ ZeroRecorded
    /\ Len(stack) >= 2
    /\ \E d \in 1..Len(stack) : stack[d].moveIdx < Len(stack[d].moves)
    /\ topK >= 2

\* C23: after each terminal is processed the result list has at most topK
\* entries and is sorted ascending by (remaining count, sequence length); a
\* terminal enters the list only when the list has fewer than topK entries
\* or its key strictly precedes the key of the current last entry.
C23_ResultListBoundedSorted ==
    /\ [](/\ Len(topResults) <= topK
          /\ \A r \in 1..(Len(topResults) - 1) :
                ~KeyLess(topResults[r + 1], topResults[r]))
    /\ [][topResults' # topResults =>
              \/ Len(topResults) < topK
              \/ \E e \in Range(topResults') \ Range(topResults) :
                    KeyLess(e, topResults[Len(topResults)])]_vars

\* the terminal processed last entered a full list of two ahead of both
\* entries, and a terminal searched before it is no longer listed
C23_Witness ==
    /\ pc = "dfs"
    /\ topK = 2
    /\ Len(topResults) = 2
    /\ LET f == stack[Len(stack)]
       IN  /\ f.moveIdx >= 1
           /\ LET move == f.moves[f.moveIdx]
                  t == applyMove(f.board, move[1], move[2])
              IN  /\ findAllMoves(t) = <<>>
                  /\ topResults[1] = [seq |-> Append(curSeq, move), board |-> t]
    /\ \E y \in Reachable(start) :
          /\ findAllMoves(y) = <<>>
          /\ boardKey(y) \in visited
          /\ \A r \in 1..2 : topResults[r].board # y

\* C24: each distinct board is expanded at most once. The explored count
\* equals the size of the visited set, every step that explores a board adds
\* one new key to the set, and a dfs call on a board whose key is already in
\* the set adds one to the skipped count and expands nothing.
C24_EachBoardExpandedOnce ==
    /\ [](statesExplored = Cardinality(visited))
    /\ [][statesExplored' # statesExplored =>
              /\ statesExplored' = statesExplored + 1
              /\ \E k \in visited' \ visited : visited' = visited \cup {k}]_vars
    /\ [][(/\ pc = "dfs"
           /\ Len(stack') >= Len(stack)
           /\ stack'[Len(stack)].moveIdx = stack[Len(stack)].moveIdx + 1
           /\ LET f == stack[Len(stack)]
                  move == f.moves[f.moveIdx + 1]
              IN  boardKey(applyMove(f.board, move[1], move[2])) \in visited)
          => /\ statesSkipped' = statesSkipped + 1
             /\ Len(stack') = Len(stack)
             /\ UNCHANGED <<visited, statesExplored, topResults, solved>>]_vars

\* solve returned after meeting boards again that it had expanded already
C24_Witness ==
    /\ pc = "done"
    /\ statesSkipped >= 2
    /\ statesExplored >= 4
    /\ statesExplored = Cardinality(visited)

\* C25: every result {seq, board} of solve satisfies
\* 2 * |seq| + remainingCount(board) = remainingCount(start); hence results
\* with the same remaining count have sequences of the same length.
C25_MovesAccountForClearedCells ==
    /\ \A r \in 1..Len(topResults) :
          2 * Len(topResults[r].seq) + remainingCount(topResults[r].board)
              = remainingCount(start)
    /\ \A r, q \in 1..Len(topResults) :
          remainingCount(topResults[r].board) = remainingCount(topResults[q].board)
              => Len(topResults[r].seq) = Len(topResults[q].seq)

\* solve returned two results of the same remaining count, reached by two
\* or more moves that removed a row and left digits on the board
C25_Witness ==
    /\ pc = "done"
    /\ Len(topResults) = 2
    /\ remainingCount(topResults[1].board) = remainingCount(topResults[2].board)
    /\ remainingCount(topResults[1].board) > 0
    /\ Len(topResults[1].seq) >= 2
    /\ Len(topResults[1].board) < Len(start)

\* C26: solve terminates on every finite board. The current move sequence,
\* the stack of activations and every recorded sequence are never longer than
\* floor(remainingCount(start) / 2), the visited set holds only keys of boards
\* reachable from the start board by legal moves, and the call returns.
C26_SolveTerminates ==
    /\ [](LET half == remainingCount(start) \div 2
          IN  /\ Len(curSeq) <= half
              /\ Len(stack) <= half
              /\ \A r \in 1..Len(topResults) : Len(topResults[r].seq) <= half)
    /\ [](pc = "done" => visited \subseteq {boardKey(y) : y \in Reachable(start)})
    /\ <>(pc \in {"done", "grouped"})

\* solve returned a sequence as long as the bound allows, three moves or more
C26_Witness ==
    /\ pc = "done"
    /\ remainingCount(start) >= 6
    /\ \E r \in 1..Len(topResults) :
          Len(topResults[r].seq) = remainingCount(start) \div 2

\* C27: for every board reachable by legal moves and all in-range positions
\* i and j, every row of applyMove(b, i, j) holds an active digit, and the
\* rows of the result are, in their original order, exactly the rows of b
\* that still hold an active digit once cells i and j are cleared, their
\* other cells unchanged.
C27_CompactionKeepsLiveRowsInOrder ==
    pc = "play" =>
        \A i \in 0..(Len(board) - 1) : \A j \in i..(Len(board) - 1) :
            \A after \in {applyMove(board, i, j)} :
            LET cell(k) == IF k = i + 1 \/ k = j + 1 THEN 0 ELSE board[k]
                RECURSIVE LiveRowsInOrder(_, _)
                LiveRowsInOrder(r, off) ==
                    LET lo == r * ROW_SIZE
                        hi == Min2(lo + ROW_SIZE, Len(board))
                    IN  IF lo >= Len(board) THEN off = Len(after)
                        ELSE IF \E k \in (lo + 1)..hi : cell(k) > 0
                             THEN /\ off + (hi - lo) <= Len(after)
                                  /\ \A k \in (lo + 1)..hi : after[off + k - lo] = cell(k)
                                  /\ LiveRowsInOrder(r + 1, off + (hi - lo))
                             ELSE LiveRowsInOrder(r + 1, off)
            IN  /\ \A q \in 0..(RowsOf(after) - 1) :
                      \E k \in (q * ROW_SIZE + 1)..Min2(q * ROW_SIZE + ROW_SIZE, Len(after)) :
                          after[k] > 0
                /\ LiveRowsInOrder(0, 0)

\* a move was played on a three-row board whose middle row two positions
\* empty, leaving the outer rows in their order
C27_Witness ==
    /\ pc = "play"
    /\ played # <<>>
    /\ Len(board) = 3 * ROW_SIZE
    /\ \E i \in ROW_SIZE..(2 * ROW_SIZE - 1) : \E j \in i..(2 * ROW_SIZE - 1) :
          LET after == applyMove(board, i, j)
          IN  /\ Len(after) = 2 * ROW_SIZE
              /\ At(after, 0) = At(board, 0)
              /\ At(after, ROW_SIZE) = At(board, 2 * ROW_SIZE)
              /\ At(board, 0) # At(board, 2 * ROW_SIZE)

\* C28: extendBoard(b) is the prefix of b up to and including its last
\* non-sentinel cell, then the active digits of b in ascending position
\* order, then the fewest sentinel cells that make the length a multiple of
\* 9; it is the empty board when b has no non-sentinel cell.
C28_ExtendIsPrefixDealPadding ==
    op.name = "extend" =>
        LET b == op.prev
            content == {k \in 1..Len(b) : b[k] # -1}
            last == IF content = {} THEN 0
                    ELSE CHOOSE k \in content : \A l \in content : l <= k
            deal == SelectSeq(b, LAMBDA v : v > 0)
            body == SubSeq(b, 1, last) \o deal
            pad == CHOOSE n \in 0..(ROW_SIZE - 1) : (Len(body) + n) % ROW_SIZE = 0
        IN  /\ board = body \o [k \in 1..pad |-> -1]
            /\ content = {} => board = <<>>

\* a board was extended whose last content cell is a cleared cell behind the
\* last digit, with a sentinel before a digit and two digits or more to deal
C28_Witness ==
    /\ op.name = "extend"
    /\ \E k \in 1..Len(op.prev) :
          /\ op.prev[k] = 0
          /\ \A l \in (k + 1)..Len(op.prev) : op.prev[l] = -1
    /\ \E k, l \in 1..Len(op.prev) : k < l /\ op.prev[k] = -1 /\ op.prev[l] > 0
    /\ remainingCount(op.prev) >= 2
    /\ board[Len(board)] = -1

\* position (1-based) of the last cell of b that is not the sentinel, 0 when
\* there is none
LastContent(b) ==
    LET content == {k \in 1..Len(b) : b[k] # -1}
    IN  IF content = {} THEN 0 ELSE CHOOSE k \in content : \A l \in content : l <= k

\* C29 as stated: in extendBoard(b), also for a board parsed from a text with
\* a short row that is not its last row, no sentinel cell precedes a
\* non-sentinel cell, and every cleared cell of b before its last
\* non-sentinel cell is kept at its position.
C29_SentinelsOnlyTrail ==
    op.name = "extend" =>
        /\ \A k, l \in 1..Len(board) : (k < l /\ board[k] = -1) => board[l] = -1
        /\ \A k \in 1..LastContent(op.prev) : op.prev[k] = 0 => board[k] = 0

\* C29 amended: extendBoard(b) keeps every cell of b up to its last
\* non-sentinel cell at its position, cleared cells and sentinels alike;
\* behind that prefix the sentinels form one trailing run, so the sentinels of
\* the whole result form one trailing run exactly when b has no sentinel
\* before its last non-sentinel cell.
C29_ExtendKeepsInnerSentinels ==
    op.name = "extend" =>
        LET last == LastContent(op.prev)
        IN  /\ \A k \in 1..last : board[k] = op.prev[k]
            /\ \A k, l \in (last + 1)..Len(board) :
                  (k < l /\ board[k] = -1) => board[l] = -1
            /\ (\A k, l \in 1..Len(board) : (k < l /\ board[k] = -1) => board[l] = -1)
                  <=> (\A k \in 1..last : op.prev[k] # -1)

\* a board with a cleared cell and, behind a short row, a digit was extended:
\* the short row's sentinels stand before digits in the result
C29_Witness ==
    /\ op.name = "extend"
    /\ \E k, l \in 1..Len(op.prev) : k < l /\ op.prev[k] = -1 /\ op.prev[l] > 0
    /\ \E k \in 1..LastContent(op.prev) : op.prev[k] = 0
    /\ \E k, l \in 1..Len(board) : k < l /\ board[k] = -1 /\ board[l] > 0
    /\ board[Len(board)] = -1

\* the number of moves in a list of move sequences
RECURSIVE SumLen(_)
SumLen(seqs) == IF seqs = <<>> THEN 0 ELSE Len(Head(seqs)) + SumLen(Tail(seqs))

\* C30: every result in the topResults of a phase p >= 2 of solveMultiPhase
\* holds p move sequences in phaseSeqs, and its totalMoves, the second
\* ranking key, is the sum of their lengths.
C30_TotalMovesSumsPhases ==
    \A p \in 1..Len(allPhases) :
        allPhases[p].phaseNum >= 2 =>
            \A r \in 1..Len(allPhases[p].topResults) :
                LET e == allPhases[p].topResults[r]
                IN  /\ Len(e.phaseSeqs) = allPhases[p].phaseNum
                    /\ e.totalMoves = SumLen(e.phaseSeqs)

\* the record of phase p among the phase records
PhaseRecord(phases, p) == phases[CHOOSE k \in 1..Len(phases) : phases[k].phaseNum = p]

\* C31: phase p+1 (p >= 2) of solveMultiPhase is run only if p is below the
\* phase limit, phase p found no zero-remaining result, and p = 2 or the
\* best remaining count of phase p is strictly below that of phase p-1; a
\* recorded phase 2 without an exact solution ends the call only at the
\* limit; the phase records never outnumber max(1, limit); the call returns.
C31_NextPhaseOnlyOnImprovement ==
    /\ [][(phaseNum >= 2 /\ phaseNum' = phaseNum + 1 /\ pc' = "ext") =>
              LET rec == PhaseRecord(allPhases', phaseNum)
              IN  /\ phaseNum < maxExtensions
                  /\ \A r \in 1..Len(rec.topResults) : rec.topResults[r].remaining > 0
                  /\ \/ phaseNum = 2
                     \/ rec.topResults[1].remaining
                            < PhaseRecord(allPhases', phaseNum - 1).topResults[1].remaining]_vars
    /\ [][(pc = "ext" /\ phaseNum = 2 /\ pc' = "returned" /\ allPhases' # allPhases) =>
              \/ PhaseRecord(allPhases', 2).topResults[1].remaining = 0
              \/ (phaseNum' = 3 /\ maxExtensions = 2)]_vars
    /\ [](Len(allPhases) <= (IF maxExtensions > 1 THEN maxExtensions ELSE 1))
    /\ <>(pc = "returned")

\* four phases were recorded: phase 3 improved on phase 2 without solving
\* the board, after phase 2 had not improved on phase 1
C31_Witness ==
    /\ pc = "returned"
    /\ Len(allPhases) = 4
    /\ allPhases[3].topResults[1].remaining < allPhases[2].topResults[1].remaining
    /\ allPhases[2].topResults[1].remaining
           >= remainingCount(allPhases[1].topResults[1].board)

\* the board after the moves of seq are applied to b in order
RECURSIVE PlayedOn(_, _)
PlayedOn(b, seq) ==
    IF seq = <<>> THEN b
    ELSE PlayedOn(applyMove(b, Head(seq)[1], Head(seq)[2]), Tail(seq))

\* entry e carries the lineage of a result of phase p: p sequences and p
\* boards, the first board the initial one, each sequence a legal replay on
\* its board down to a terminal board, whose extension is the next board or,
\* for the last, which is the final board
HasLineage(e, p) ==
    /\ Len(e.phaseSeqs) = p
    /\ Len(e.phaseBoards) = p
    /\ e.phaseBoards[1] = start
    /\ \A k \in 1..p :
          LET T == PlayedOn(e.phaseBoards[k], e.phaseSeqs[k])
          IN  /\ SoundReplay(e.phaseBoards[k], e.phaseSeqs[k], T)
              /\ IF k < p THEN extendBoard(T) = e.phaseBoards[k + 1]
                 ELSE T = e.finalBoard
    /\ e.remaining = remainingCount(e.finalBoard)

\* C32: every entry in the topResults of a phase p >= 2, and the best
\* solution, carries a reconstructible lineage: p sequences and p boards
\* starting at the initial board, each sequence replaying legally on its
\* board to a terminal board whose extension is the next phase board, the
\* last one giving finalBoard, with remaining = remainingCount(finalBoard).
C32_LineageReplays ==
    /\ \A p \in 1..Len(allPhases) :
          allPhases[p].phaseNum >= 2 =>
              \A r \in 1..Len(allPhases[p].topResults) :
                  HasLineage(allPhases[p].topResults[r], allPhases[p].phaseNum)
    /\ bestSolution # <<>> => HasLineage(bestSolution[1], Len(bestSolution[1].phaseSeqs))

\* four phases returned a best solution of phase 4 whose extension phases
\* each played a move
C32_Witness ==
    /\ pc = "returned"
    /\ Len(allPhases) = 4
    /\ bestSolution # <<>>
    /\ Len(bestSolution[1].phaseSeqs) = 4
    /\ \A k \in 2..4 : bestSolution[1].phaseSeqs[k] # <<>>

\* number of moves in the first n steps
RECURSIVE MovesUpTo(_, _)
MovesUpTo(steps, n) == IF n = 0 THEN 0 ELSE Len(steps[n].moves) + MovesUpTo(steps, n - 1)

\* the rows of b left without an active digit once the cells of move are cleared
RowsEmptiedBy(b, move) ==
    {r \in 0..(RowsOf(b) - 1) :
        \A k \in (r * ROW_SIZE + 1)..Min2(r * ROW_SIZE + ROW_SIZE, Len(b)) :
            k = move[1] + 1 \/ k = move[2] + 1 \/ b[k] <= 0}

\* move joins two rows and two columns, and row r lies strictly between its rows
PassesOverRow(move, r) ==
    LET ri == move[1] \div ROW_SIZE
        rj == move[2] \div ROW_SIZE
    IN  /\ move[1] % ROW_SIZE # move[2] % ROW_SIZE
        /\ (ri < r /\ r < rj) \/ (rj < r /\ r < ri)

\* C33: a step of groupMovesForDisplay that holds a row-removal move together
\* with other moves holds it only if the move is legal on the step's starting
\* board and no diagonal move before it in the step has its endpoints
\* strictly on opposite sides of a row the move removes, whichever of the
\* rows it removes; a row-removal move alone in its step has index 0.
C33_MergeNeedsLegalAndUncrossed ==
    pc = "grouped" =>
        \A s \in 1..Len(groups) :
            LET step == groups[s]
                x == step.rowRemovalIdx
            IN  x >= 0 =>
                    IF Len(step.moves) = 1 THEN x = 0
                    ELSE LET move == step.moves[x + 1]
                             before == PlayedOn(start, SubSeq(groupOf, 1, MovesUpTo(groups, s) - 1))
                         IN  /\ isMoveValidOnBoard(step.board, move)
                             /\ \A k \in 1..x : \A r \in RowsEmptiedBy(before, move) :
                                   ~PassesOverRow(step.moves[k], r)

\* the positions, within step s of steps, of the moves that shrink the board
\* when seq is replayed from b (the q-th move of the steps, counted through
\* the steps in order, is a row-removal move exactly when the q-th move of
\* seq is one: a segment is regrouped only between two row-removal moves)
RemovalsOfStep(b, seq, steps, s) ==
    LET lo == MovesUpTo(steps, s - 1)
    IN  {k \in 1..Len(steps[s].moves) :
            LET before == PlayedOn(b, SubSeq(seq, 1, lo + k - 1))
            IN  Len(applyMove(before, seq[lo + k][1], seq[lo + k][2])) < Len(before)}

\* C34: in the grouping of a sequence returned by solve every step holds at
\* most one row-removal move; when it holds one, that move is the last of the
\* step and rowRemovalIdx is its index, and otherwise rowRemovalIdx is -1
\* (so no row-removal move joins a step that already ends with one).
C34_OneRemovalPerStepAndLast ==
    pc = "grouped" =>
        \A s \in 1..Len(groups) :
            LET n == Len(groups[s].moves)
                removals == RemovalsOfStep(board, groupOf, groups, s)
            IN  /\ Cardinality(removals) <= 1
                /\ removals = {} => groups[s].rowRemovalIdx = -1
                /\ removals # {} => removals = {n} /\ groups[s].rowRemovalIdx = n - 1

\* C35: in the grouping of a sequence returned by solve the moves of a step
\* reference pairwise disjoint cell positions: no position occurs in two
\* moves of one step, and so no move occurs twice in it.
C35_StepMovesDisjoint ==
    pc = "grouped" =>
        \A s \in 1..Len(groups) :
            \A k, l \in 1..Len(groups[s].moves) :
                k < l => {groups[s].moves[k][1], groups[s].moves[k][2]}
                             \cap {groups[s].moves[l][1], groups[s].moves[l][2]} = {}

C37_StepBoardsReplay ==
    (pc = "grouped" /\ groups # <<>>) =>
        /\ groups[1].board = start
        /\ \A s \in 1..(Len(groups) - 1) :
               PlayedOn(groups[s].board, groups[s].moves) = groups[s + 1].board
        /\ PlayedOn(groups[Len(groups)].board, groups[Len(groups)].moves)
               = PlayedOn(start, groupOf)

\* a grouping of several steps that lists the moves in another order than
\* the sequence and holds a row-removal move merged into a step
C37_Witness ==
    /\ pc = "grouped"
    /\ Len(groups) >= 2
    /\ Flatten(groups) # groupOf
    /\ \E s \in 1..Len(groups) : groups[s].rowRemovalIdx >= 1

\* the legal moves of b that keep every row of it
StayingMoves(b) ==
    {m \in Range(findAllMoves(b)) :
        isMoveValidOnBoard(b, m) /\ Len(applyMove(b, m[1], m[2])) = Len(b)}

\* C38: two moves that are both legal on a board and share no cell commute:
\* when the first does not shrink the board the second is still legal on the
\* board it leaves, and when neither shrinks the board the two orders of
\* play give the same board.
C38_IndependentMovesCommute ==
    pc = "play" =>
        \A m1 \in StayingMoves(board) :
            LET b1 == applyMove(board, m1[1], m1[2])
            IN  \A m2 \in Range(findAllMoves(board)) :
                    (isMoveValidOnBoard(board, m2) /\ {m1[1], m1[2]} \cap {m2[1], m2[2]} = {}) =>
                        /\ isMoveValidOnBoard(b1, m2)
                        /\ m2 \in Range(findAllMoves(b1))
                        /\ m2 \in StayingMoves(board) =>
                               applyMove(b1, m2[1], m2[2])
                                   = applyMove(applyMove(board, m2[1], m2[2]), m1[1], m1[2])

\* a board with two legal moves on disjoint cells of which neither shrinks
\* the board, while the two played together remove a row
C38_Witness ==
    /\ pc = "play"
    /\ \E m1, m2 \in StayingMoves(board) :
          /\ {m1[1], m1[2]} \cap {m2[1], m2[2]} = {}
          /\ Len(applyMove(applyMove(board, m1[1], m1[2]), m2[1], m2[2])) < Len(board)

\* C39: findAllMoves returns no position pair twice, also when the nearest
\* following active cell of the flattened board is at the same time the
\* nearest active cell below, down-right or down-left.
C39_NoPairEnumeratedTwice ==
    LET moves == findAllMoves(board)
    IN  \A k, l \in 1..Len(moves) : k < l => moves[k] # moves[l]

====
